---- MODULE Spec2Model ----
(***************************************************************************)
(* A model of kilo.c: the raw-mode terminal session, the escape-sequence   *)
(* key decoder, the file loader, the cursor / scroll state, the renderer   *)
(* and the control loop.                                                   *)
(*                                                                         *)
(* The environment (tcgetattr, tcsetattr, ioctl, fopen, read) answers      *)
(* nondeterministically: every outcome the code tests for is drawn with \E.*)
(* size_t values are modelled as naturals: the subtractions of             *)
(* editor_move_cursor and editor_scroll are guarded in the code, and        *)
(* screen_cols - 1 of END_KEY cannot wrap because the window-size query     *)
(* answers at least one column (WindowSizes).                               *)
(* A frame is the sequence of bytes editor_refresh_screen passes to write. *)
(* malloc and realloc are taken to succeed.                                *)
(***************************************************************************)
EXTENDS Integers, Sequences, FiniteSets, TLC

(* ------------------------------ bounds --------------------------------- *)

\* largest number of terminal rows the window-size query answers
MaxRows == 2
\* largest number of terminal columns the window-size query answers
MaxCols == 2
\* largest number of bytes in the file named on the command line
MaxFileLen == 3
\* largest number of presses of one key in a run of equal keys
MaxPresses == 4

(* ----------------------------- constants ------------------------------- *)

ESC == 27
\* CTRL_KEY('q') = 'q' & 0x1f
CTRL_Q == 17
LF == 10
CR == 13
CH_0 == 48
CH_9 == 57
CH_1 == 49
CH_2 == 50
CH_3 == 51
CH_5 == 53
CH_6 == 54
CH_7 == 55
CH_8 == 56
CH_A == 65
CH_B == 66
CH_C == 67
CH_D == 68
CH_F == 70
CH_H == 72
CH_LBRACKET == 91
CH_TILDE == 126
CH_SPACE == 32
CH_SEMICOLON == 59
\* the bytes of KILO_VERSION, "0.0.1"
KILO_VERSION == <<48, 46, 48, 46, 49>>

ARROW_LEFT == 1000
ARROW_RIGHT == 1001
ARROW_UP == 1002
ARROW_DOWN == 1003
DEL_KEY == 1004
HOME_KEY == 1005
END_KEY == 1006
PAGE_UP == 1007
PAGE_DOWN == 1008

\* the value of `c` while editor_read_key has not returned
NoKey == 0 - 1

(* ------------------------------- state --------------------------------- *)

VARIABLES
    pc,            \* position of the single thread of control
    argc,          \* 1: no file argument, 2: a file argument
    cx, cy,        \* E.cx, E.cy
    row_off,       \* E.row_off
    col_off,       \* E.col_off
    screen_rows,   \* E.screen_rows
    screen_cols,   \* E.screen_cols
    num_rows,      \* E.num_rows
    row,           \* E.row: sequence of rows, each a sequence of chars
    orig_termios,  \* E.orig_termios: "unset" or "saved"
    atexit_fns,    \* functions registered with atexit
    term_mode,     \* attributes of the terminal: "cooked" or "raw"
    seq,           \* editor_read_key: the bytes stored in seq[] so far
    c,             \* editor_process_keypress: the key editor_read_key returned
                   \* (NoKey outside the switch)
    rd,            \* outcome of the last read() of the current editor_read_key call
                   \* (NoRead when it has made none)
    nread,         \* number of bytes the current editor_read_key call has consumed
    exit_status,   \* status passed to exit, NoStatus before
    trace,         \* terminal-visible events of the exit paths, in order
    fp,            \* editor_open: the bytes of the stream fp, NoFile when closed
    wr             \* the buffers editor_refresh_screen last passed to write()

vars == <<pc, argc, cx, cy, row_off, col_off, screen_rows, screen_cols,
          num_rows, row, orig_termios, atexit_fns, term_mode, seq, c, rd,
          nread, exit_status, trace, fp, wr>>

E_vars == <<cx, cy, row_off, col_off, screen_rows, screen_cols, num_rows, row>>

NoStatus == 0 - 1

\* the value of fp while no stream is open (no byte of a file is 0 - 1)
NoFile == <<0 - 1>>

(* --------------------------- the environment --------------------------- *)

\* bytes the terminal may deliver on stdin: those the decoder tests for, the
\* digits, and two it does not name ('O' and 'x')
StdinBytes ==
    {ESC, CTRL_Q, CH_LBRACKET, CH_TILDE, CH_A, CH_B, CH_C, CH_D, CH_F, CH_H}
      \cup (CH_0 .. CH_9) \cup {79, 120}

\* outcomes of read(STDIN_FILENO, &ch, 1): a byte (return value 1), a timeout
\* (return value 0), -1 with errno = EAGAIN, -1 with another errno
ReadResults ==
    [kind : {"byte"}, ch : StdinBytes] \cup [kind : {"timeout", "eagain", "error"}, ch : {0}]

IsByte(res) == res.kind = "byte"

NoRead == [kind |-> "none", ch |-> 0]

\* bytes a file may hold: 'a', newline, carriage return
FileBytes == {97, LF, CR}

RECURSIVE SeqsUpTo(_, _)
SeqsUpTo(S, n) ==
    IF n = 0 THEN {<<>>}
    ELSE LET shorter == SeqsUpTo(S, n - 1)
         IN  shorter \cup {Append(s, b) : s \in {t \in shorter : Len(t) = n - 1}, b \in S}

Files == SeqsUpTo(FileBytes, MaxFileLen)

(* ------------------------------ terminal ------------------------------- *)

\* exit that ends the process at once, running no handler (as _exit does)
Exit_nohandlers(status) ==
    /\ exit_status' = status
    /\ pc' = "terminated"

\* exit(status): records the status and starts running the atexit handlers.
\* Called while exit is already running them, its behaviour is undefined.
Exit(status) ==
    /\ exit_status' = status
    /\ pc' = IF pc = "exit" THEN "undefined" ELSE "exit"

\* die(s): clear screen, cursor home, perror, exit(1)
DieEvents == <<"clear", "home", "perror", "exit1">>

\* die that restores the terminal mode itself before printing the diagnostic
Die_restorefirst ==
    /\ trace' = trace \o <<"clear", "home", "restore", "perror", "exit1">>
    /\ Exit(1)

Die ==
    /\ trace' = trace \o DieEvents
    /\ Exit(1)

\* raw_mode_enable: tcgetattr, atexit, tcsetattr
RawModeEnable ==
    /\ pc = "raw_mode_enable"
    /\ \E got \in BOOLEAN, set \in BOOLEAN :
         IF ~got
         THEN /\ Die
              /\ UNCHANGED <<orig_termios, atexit_fns, term_mode>>
         ELSE /\ orig_termios' = "saved"
              /\ atexit_fns' = Append(atexit_fns, "raw_mode_disable")
              /\ IF set
                 THEN /\ term_mode' = "raw"
                      /\ pc' = "editor_init"
                      /\ UNCHANGED <<trace, exit_status>>
                 ELSE /\ Die
                      /\ UNCHANGED term_mode
    /\ UNCHANGED <<argc, E_vars, seq, c, rd, nread, fp, wr>>

\* exit() running the registered handlers: raw_mode_disable.  When tcsetattr
\* fails there, die calls exit a second time, from inside an exit handler:
\* the behaviour is undefined.
ExitHandlers ==
    /\ pc = "exit"
    /\ IF atexit_fns = <<>>
       THEN /\ pc' = "terminated"
            /\ UNCHANGED <<term_mode, trace, exit_status>>
       ELSE \E set \in BOOLEAN :
              IF set
              THEN /\ term_mode' = "cooked"
                   /\ trace' = Append(trace, "restore")
                   /\ pc' = "terminated"
                   /\ UNCHANGED exit_status
              ELSE /\ trace' = Append(trace, "restore_failed") \o DieEvents
                   /\ Exit(1)
                   /\ UNCHANGED term_mode
    /\ UNCHANGED <<argc, E_vars, orig_termios, atexit_fns, seq, c, rd, nread, fp, wr>>

\* statuses an undefined second call of exit may end the process with
UndefinedStatuses == {0, 1, 134}

\* the outcomes of the undefined second exit: the process ends with some
\* status, or never ends
UndefinedExit ==
    /\ pc = "undefined"
    /\ \/ /\ pc' = "terminated"
          /\ exit_status' \in UndefinedStatuses
       \/ /\ pc' = "hung"
          /\ UNCHANGED exit_status
    /\ UNCHANGED <<argc, E_vars, orig_termios, atexit_fns, term_mode, seq, c, rd,
                   nread, trace, fp, wr>>

(* -------------------------------- init --------------------------------- *)

\* editor_init: cursor and offsets to 0, then get_window_size.  The ioctl
\* path rejects ws_col = 0 but not ws_row = 0; the fallback parses the
\* terminal's 1-based cursor position report.
WindowSizes == {<<r, k>> : r \in 0 .. MaxRows, k \in 1 .. MaxCols}

EditorInitFrom(sizes) ==
    /\ pc = "editor_init"
    /\ cx' = 0
    /\ cy' = 0
    /\ row_off' = 0
    /\ col_off' = 0
    /\ num_rows' = 0
    /\ row' = <<>>
    /\ \/ /\ \E ws \in sizes :
               /\ screen_rows' = ws[1]
               /\ screen_cols' = ws[2]
          /\ pc' = IF argc >= 2 THEN "editor_open" ELSE "refresh"
          /\ UNCHANGED <<trace, exit_status>>
       \/ /\ Die
          /\ UNCHANGED <<screen_rows, screen_cols>>
    /\ UNCHANGED <<argc, orig_termios, atexit_fns, term_mode, seq, c, rd, nread, fp, wr>>

EditorInit == EditorInitFrom(WindowSizes)

\* window sizes around the length of the welcome message, 28 bytes: too
\* narrow for it, as wide, wider by 1 .. 4 columns, and the 24 x 80 terminal
WelcomeSizes ==
    {<<1, 1>>, <<2, 27>>, <<2, 28>>, <<3, 29>>, <<3, 30>>, <<4, 31>>, <<5, 32>>,
     <<24, 80>>}

\* editor_init at a terminal of one of these sizes
EditorInitWelcome == EditorInitFrom(WelcomeSizes)

(* ------------------------------ file i/o ------------------------------- *)

\* getline: the length of the next line of f, its newline included; the
\* whole of f when it holds no newline
LineEnd(f) ==
    IF \E i \in 1 .. Len(f) : f[i] = LF
    THEN CHOOSE i \in 1 .. Len(f) : f[i] = LF /\ \A j \in 1 .. (i - 1) : f[j] # LF
    ELSE Len(f)

\* a strip that drops one trailing \n and nothing else
StripLen_newlineonly(line, n) ==
    IF n > 0 /\ line[n] = LF THEN n - 1 ELSE n

\* the strip loop of editor_open: linelen_u after dropping trailing \n and \r
RECURSIVE StripLen(_, _)
StripLen(line, n) ==
    IF n > 0 /\ (line[n] = LF \/ line[n] = CR)
    THEN StripLen(line, n - 1)
    ELSE n

\* the getline loop of editor_open with editor_append_row: the rows appended
\* to `rows` while reading the rest f of the file
RECURSIVE ReadRows(_, _)
ReadRows(f, rows) ==
    IF f = <<>>
    THEN rows
    ELSE LET n    == LineEnd(f)
             line == SubSeq(f, 1, n)
         IN  ReadRows(SubSeq(f, n + 1, Len(f)),
                      Append(rows, SubSeq(line, 1, StripLen(line, n))))

\* editor_open up to the end of the getline loop: fopen fails, or every line
\* of the file is appended
EditorOpen ==
    /\ pc = "editor_open"
    /\ \/ /\ \E f \in Files :
               /\ fp' = f
               /\ row' = ReadRows(f, row)
               /\ num_rows' = num_rows + Len(ReadRows(f, <<>>))
          /\ pc' = "editor_open_close"
          /\ UNCHANGED <<trace, exit_status>>
       \/ /\ Die
          /\ UNCHANGED <<row, num_rows, fp>>
    /\ UNCHANGED <<argc, cx, cy, row_off, col_off, screen_rows, screen_cols,
                   orig_termios, atexit_fns, term_mode, seq, c, rd, nread, wr>>

\* the end of editor_open: free(line), fclose(fp)
EditorOpenClose ==
    /\ pc = "editor_open_close"
    /\ fp' = NoFile
    /\ pc' = "refresh"
    /\ UNCHANGED <<argc, E_vars, orig_termios, atexit_fns, term_mode, seq, c, rd,
                   nread, exit_status, trace, wr>>

(* ------------------------------- output -------------------------------- *)

\* editor_scroll that forgets the + 1 when scrolling down or right
editor_scroll_offbyone ==
    LET r1 == IF cy < row_off THEN cy ELSE row_off
        r2 == IF cy >= r1 + screen_rows THEN cy - screen_rows ELSE r1
        c1 == IF cx < col_off THEN cx ELSE col_off
        c2 == IF cx >= c1 + screen_cols THEN cx - screen_cols ELSE c1
    IN  <<r2, c2>>

\* an editor_scroll that scrolls down or right by one line per call
editor_scroll_onestep ==
    LET r1 == IF cy < row_off THEN cy ELSE row_off
        r2 == IF cy >= r1 + screen_rows THEN r1 + 1 ELSE r1
        c1 == IF cx < col_off THEN cx ELSE col_off
        c2 == IF cx >= c1 + screen_cols THEN c1 + 1 ELSE c1
    IN  <<r2, c2>>

\* an editor_scroll that puts the cursor on the first line or column of the
\* window when it scrolls down or right
editor_scroll_totop ==
    LET r1 == IF cy < row_off THEN cy ELSE row_off
        r2 == IF cy >= r1 + screen_rows THEN cy ELSE r1
        c1 == IF cx < col_off THEN cx ELSE col_off
        c2 == IF cx >= c1 + screen_cols THEN cx ELSE c1
    IN  <<r2, c2>>

\* editor_scroll: the new <<row_off, col_off>>
editor_scroll ==
    LET r1 == IF cy < row_off THEN cy ELSE row_off
        r2 == IF cy >= r1 + screen_rows THEN cy - screen_rows + 1 ELSE r1
        c1 == IF cx < col_off THEN cx ELSE col_off
        c2 == IF cx >= c1 + screen_cols THEN cx - screen_cols + 1 ELSE c1
    IN  <<r2, c2>>

\* the escape sequences of a frame, as the bytes ab_append receives
\* "\x1b[?25l"
HideCursor == <<ESC, CH_LBRACKET, 63, 50, 53, 108>>
\* "\x1b[?25h"
ShowCursor == <<ESC, CH_LBRACKET, 63, 50, 53, 104>>
\* "\x1b[H"
CursorHome == <<ESC, CH_LBRACKET, CH_H>>
\* "\x1b[K"
EraseLine == <<ESC, CH_LBRACKET, 75>>
\* "\r\n"
CRLF == <<CR, LF>>

\* snprintf %zu: the decimal digits of n
RECURSIVE Dec(_)
Dec(n) ==
    IF n < 10
    THEN <<CH_0 + n>>
    ELSE Dec(n \div 10) \o <<CH_0 + (n % 10)>>

\* snprintf(welcome, ..., "Kilo editor -- version %s", KILO_VERSION)
Welcome ==
    <<75, 105, 108, 111, CH_SPACE, 101, 100, 105, 116, 111, 114, CH_SPACE,
      45, 45, CH_SPACE, 118, 101, 114, 115, 105, 111, 110, CH_SPACE>>
    \o KILO_VERSION

\* a welcome line whose padding is blanks only
DrawWelcome_blankpad ==
    LET welcome_len == IF Len(Welcome) > screen_cols
                       THEN screen_cols ELSE Len(Welcome)
        padding     == (screen_cols - welcome_len) \div 2
    IN  [i \in 1 .. padding |-> CH_SPACE] \o SubSeq(Welcome, 1, welcome_len)

\* the welcome line of editor_draw_rows: the message cut to the width of the
\* screen and centred, the padding starting with a tilde
DrawWelcome ==
    LET welcome_len == IF Len(Welcome) > screen_cols
                       THEN screen_cols ELSE Len(Welcome)
        padding     == (screen_cols - welcome_len) \div 2
    IN  (IF padding # 0
         THEN <<CH_TILDE>> \o [i \in 1 .. (padding - 1) |-> CH_SPACE]
         ELSE <<>>)
        \o SubSeq(Welcome, 1, welcome_len)

\* a row drawn from its first byte whatever the column offset
DrawRow_fromzero(y, ro, co) ==
    LET filerow == y + ro
    IN  IF filerow >= num_rows
        THEN IF num_rows = 0 /\ y = screen_rows \div 3
             THEN DrawWelcome
             ELSE <<CH_TILDE>>
        ELSE LET len_u == IF Len(row[filerow + 1]) > screen_cols
                          THEN screen_cols ELSE Len(row[filerow + 1])
             IN  SubSeq(row[filerow + 1], 1, len_u)

\* the body of the loop of editor_draw_rows before the erase sequence: what
\* screen line y shows under offsets <<ro, co>>.  With len_u = 0 nothing is
\* copied, whatever &chars[col_off] points at.
DrawRow(y, ro, co) ==
    LET filerow == y + ro
    IN  IF filerow >= num_rows
        THEN IF num_rows = 0 /\ y = screen_rows \div 3
             THEN DrawWelcome
             ELSE <<CH_TILDE>>
        ELSE LET len_s == Len(row[filerow + 1]) - co
                 len_0 == IF len_s < 0 THEN 0 ELSE len_s
                 len_u == IF len_0 > screen_cols THEN screen_cols ELSE len_0
             IN  IF len_u = 0
                 THEN <<>>
                 ELSE SubSeq(row[filerow + 1], co + 1, co + len_u)

\* editor_draw_rows that ends the last line with \r\n as well
RECURSIVE editor_draw_rows_crlfall(_, _, _)
editor_draw_rows_crlfall(y, ro, co) ==
    IF y >= screen_rows
    THEN <<>>
    ELSE DrawRow(y, ro, co) \o EraseLine \o CRLF
         \o editor_draw_rows_crlfall(y + 1, ro, co)

\* editor_draw_rows from screen line y on: the bytes appended to ab
RECURSIVE editor_draw_rows(_, _, _)
editor_draw_rows(y, ro, co) ==
    IF y >= screen_rows
    THEN <<>>
    ELSE DrawRow(y, ro, co)
         \o EraseLine
         \o (IF y < screen_rows - 1 THEN CRLF ELSE <<>>)
         \o editor_draw_rows(y + 1, ro, co)

\* a frame that positions the cursor at its place in the file
Frame_absolute(ro, co) ==
    HideCursor
    \o CursorHome
    \o editor_draw_rows(0, ro, co)
    \o <<ESC, CH_LBRACKET>> \o Dec(cy + 1)
    \o <<CH_SEMICOLON>> \o Dec(cx + 1) \o <<CH_H>>
    \o ShowCursor

\* the append buffer of editor_refresh_screen when write is called, the
\* scroll offsets being <<ro, co>>.  (cy - ro) + 1 is computed in size_t:
\* the sum modulo 2^64 is the integer cy - ro + 1 whenever that is not
\* negative, and editor_scroll leaves ro <= cy + 1.
Frame(ro, co) ==
    HideCursor
    \o CursorHome
    \o editor_draw_rows(0, ro, co)
    \o <<ESC, CH_LBRACKET>> \o Dec((cy - ro) + 1)
    \o <<CH_SEMICOLON>> \o Dec((cx - co) + 1) \o <<CH_H>>
    \o ShowCursor

\* editor_refresh_screen: editor_scroll, then the frame is built in ab and
\* written with one write; the write changes nothing of the editor's state.
\* Every realloc of ab_append is taken to succeed.
EditorRefreshScreen ==
    /\ pc = "refresh"
    /\ row_off' = editor_scroll[1]
    /\ col_off' = editor_scroll[2]
    /\ wr' = <<Frame(editor_scroll[1], editor_scroll[2])>>
    /\ pc' = "read_c"
    /\ UNCHANGED <<argc, cx, cy, screen_rows, screen_cols, num_rows, row,
                   orig_termios, atexit_fns, term_mode, seq, c, rd, nread,
                   exit_status, trace, fp>>

(* ----------------------------- key decoder ----------------------------- *)

\* the ESC [ digit ~ switch with the cases of '5' and '6' exchanged
TildeKey_swapped(d) ==
    CASE d = CH_1 -> HOME_KEY
      [] d = CH_2 -> END_KEY
      [] d = CH_3 -> DEL_KEY
      [] d = CH_5 -> PAGE_DOWN
      [] d = CH_6 -> PAGE_UP
      [] d = CH_7 -> HOME_KEY
      [] d = CH_8 -> END_KEY
      [] OTHER -> ESC

\* switch (seq[1]) of the ESC [ digit ~ form; falls through to return ESC
TildeKey(d) ==
    CASE d = CH_1 -> HOME_KEY
      [] d = CH_2 -> END_KEY
      [] d = CH_3 -> DEL_KEY
      [] d = CH_5 -> PAGE_UP
      [] d = CH_6 -> PAGE_DOWN
      [] d = CH_7 -> HOME_KEY
      [] d = CH_8 -> END_KEY
      [] OTHER -> ESC

\* switch (seq[1]) of the ESC [ letter form
BracketKey(ch) ==
    CASE ch = CH_A -> ARROW_UP
      [] ch = CH_B -> ARROW_DOWN
      [] ch = CH_C -> ARROW_RIGHT
      [] ch = CH_D -> ARROW_LEFT
      [] ch = CH_H -> HOME_KEY
      [] ch = CH_F -> END_KEY
      [] OTHER -> ESC

\* switch (seq[1]) of the ESC 0 letter form
ZeroKey(ch) ==
    CASE ch = CH_H -> HOME_KEY
      [] ch = CH_F -> END_KEY
      [] OTHER -> ESC

\* a decoder that hands the last byte consumed after ESC back as the event
NoByteKey_lastbyte(s) == IF s = <<>> THEN ESC ELSE s[Len(s)]

\* the key returned when a read after ESC does not deliver a byte
NoByteKey(s) == ESC

\* editor_read_key returns key k to editor_process_keypress
ReturnKey(k) ==
    /\ c' = k
    /\ seq' = <<>>
    /\ pc' = "dispatch"
    /\ UNCHANGED <<trace, exit_status>>

\* the loop reading the first byte
ReadC(res) ==
    /\ pc = "read_c"
    /\ rd' = res
    /\ nread' = IF IsByte(res) THEN nread + 1 ELSE nread
    /\ IF IsByte(res)
       THEN IF res.ch = ESC
            THEN /\ pc' = "read_seq0"
                 /\ UNCHANGED <<c, seq, trace, exit_status>>
            ELSE ReturnKey(res.ch)
       ELSE IF res.kind = "error"
            THEN /\ Die
                 /\ UNCHANGED <<c, seq>>
            ELSE UNCHANGED <<pc, c, seq, trace, exit_status>>
    /\ UNCHANGED <<argc, E_vars, orig_termios, atexit_fns, term_mode, fp, wr>>

\* read(STDIN_FILENO, &seq[0], 1)
ReadSeq0(res) ==
    /\ pc = "read_seq0"
    /\ rd' = res
    /\ nread' = IF IsByte(res) THEN nread + 1 ELSE nread
    /\ IF IsByte(res)
       THEN /\ seq' = <<res.ch>>
            /\ pc' = "read_seq1"
            /\ UNCHANGED <<c, trace, exit_status>>
       ELSE ReturnKey(NoByteKey(seq))
    /\ UNCHANGED <<argc, E_vars, orig_termios, atexit_fns, term_mode, fp, wr>>

\* read(STDIN_FILENO, &seq[1], 1) and the resolution of two-byte sequences
ReadSeq1(res) ==
    /\ pc = "read_seq1"
    /\ rd' = res
    /\ nread' = IF IsByte(res) THEN nread + 1 ELSE nread
    /\ IF IsByte(res)
       THEN IF seq[1] = CH_LBRACKET
            THEN IF res.ch >= CH_0 /\ res.ch <= CH_9
                 THEN /\ seq' = <<seq[1], res.ch>>
                      /\ pc' = "read_seq2"
                      /\ UNCHANGED <<c, trace, exit_status>>
                 ELSE ReturnKey(BracketKey(res.ch))
            ELSE IF seq[1] = CH_0
                 THEN ReturnKey(ZeroKey(res.ch))
                 ELSE ReturnKey(ESC)
       ELSE ReturnKey(NoByteKey(seq))
    /\ UNCHANGED <<argc, E_vars, orig_termios, atexit_fns, term_mode, fp, wr>>

\* read(STDIN_FILENO, &seq[2], 1) and the resolution of ESC [ digit x
ReadSeq2(res) ==
    /\ pc = "read_seq2"
    /\ rd' = res
    /\ nread' = IF IsByte(res) THEN nread + 1 ELSE nread
    /\ IF IsByte(res)
       THEN IF res.ch = CH_TILDE
            THEN ReturnKey(TildeKey(seq[2]))
            ELSE ReturnKey(ESC)
       ELSE ReturnKey(NoByteKey(seq))
    /\ UNCHANGED <<argc, E_vars, orig_termios, atexit_fns, term_mode, fp, wr>>

(* -------------------------------- input -------------------------------- *)

ArrowKeys == {ARROW_LEFT, ARROW_RIGHT, ARROW_UP, ARROW_DOWN}

\* editor_move_cursor whose ARROW_DOWN goes one row too far
editor_move_cursor_pastend(key, x, y) ==
    CASE key = ARROW_LEFT  -> IF x # 0 THEN <<x - 1, y>> ELSE <<x, y>>
      [] key = ARROW_RIGHT -> IF y < num_rows /\ x < Len(row[y + 1])
                              THEN <<x + 1, y>> ELSE <<x, y>>
      [] key = ARROW_UP    -> IF y # 0 THEN <<x, y - 1>> ELSE <<x, y>>
      [] key = ARROW_DOWN  -> IF y <= num_rows THEN <<x, y + 1>> ELSE <<x, y>>
      [] OTHER -> <<x, y>>

\* editor_move_cursor whose ARROW_RIGHT does not look at the row's length
editor_move_cursor_rightfree(key, x, y) ==
    CASE key = ARROW_LEFT  -> IF x # 0 THEN <<x - 1, y>> ELSE <<x, y>>
      [] key = ARROW_RIGHT -> IF y < num_rows THEN <<x + 1, y>> ELSE <<x, y>>
      [] key = ARROW_UP    -> IF y # 0 THEN <<x, y - 1>> ELSE <<x, y>>
      [] key = ARROW_DOWN  -> IF y < num_rows THEN <<x, y + 1>> ELSE <<x, y>>
      [] OTHER -> <<x, y>>

\* editor_move_cursor(key) at cursor <<x, y>>: the new <<cx, cy>>
editor_move_cursor(key, x, y) ==
    CASE key = ARROW_LEFT  -> IF x # 0 THEN <<x - 1, y>> ELSE <<x, y>>
      [] key = ARROW_RIGHT -> IF y < num_rows /\ x < Len(row[y + 1])
                              THEN <<x + 1, y>> ELSE <<x, y>>
      [] key = ARROW_UP    -> IF y # 0 THEN <<x, y - 1>> ELSE <<x, y>>
      [] key = ARROW_DOWN  -> IF y < num_rows THEN <<x, y + 1>> ELSE <<x, y>>
      [] OTHER -> <<x, y>>

\* while (times--) editor_move_cursor(key)
RECURSIVE MoveTimes(_, _, _, _)
MoveTimes(key, times, x, y) ==
    IF times = 0
    THEN <<x, y>>
    ELSE LET p == editor_move_cursor(key, x, y)
         IN  MoveTimes(key, times - 1, p[1], p[2])

\* a switch whose PAGE_DOWN jumps to the row past the end of the buffer
KeyCursorAt_pagetoend(k, x, y) ==
    CASE k = HOME_KEY -> <<0, y>>
      [] k = END_KEY -> <<screen_cols - 1, y>>
      [] k = PAGE_UP -> MoveTimes(ARROW_UP, screen_rows, x, y)
      [] k = PAGE_DOWN -> <<x, num_rows>>
      [] k \in ArrowKeys -> editor_move_cursor(k, x, y)
      [] OTHER -> <<x, y>>

\* a switch with a case for DEL_KEY, which moves right
KeyCursorAt_delmoves(k, x, y) ==
    CASE k = HOME_KEY -> <<0, y>>
      [] k = END_KEY -> <<screen_cols - 1, y>>
      [] k = PAGE_UP -> MoveTimes(ARROW_UP, screen_rows, x, y)
      [] k = PAGE_DOWN -> MoveTimes(ARROW_DOWN, screen_rows, x, y)
      [] k \in ArrowKeys -> editor_move_cursor(k, x, y)
      [] k = DEL_KEY -> editor_move_cursor(ARROW_RIGHT, x, y)
      [] OTHER -> <<x, y>>

\* the switch of editor_process_keypress on a key k other than CTRL_Q, the
\* cursor being <<x, y>>: the new <<cx, cy>>
KeyCursorAt(k, x, y) ==
    CASE k = HOME_KEY -> <<0, y>>
      [] k = END_KEY -> <<screen_cols - 1, y>>
      [] k = PAGE_UP -> MoveTimes(ARROW_UP, screen_rows, x, y)
      [] k = PAGE_DOWN -> MoveTimes(ARROW_DOWN, screen_rows, x, y)
      [] k \in ArrowKeys -> editor_move_cursor(k, x, y)
      [] OTHER -> <<x, y>>

\* the cursor after the switch of editor_process_keypress on key k
KeyCursor(k) == KeyCursorAt(k, cx, cy)

\* editor_process_keypress called on each key of keys in turn, the cursor
\* being p = <<x, y>> before the first: the cursor after the last
RECURSIVE PressKeys(_, _)
PressKeys(keys, p) ==
    IF keys = <<>>
    THEN p
    ELSE PressKeys(Tail(keys), KeyCursorAt(Head(keys), p[1], p[2]))

\* the switch of editor_process_keypress on the key just read;
\* editor_process_keypress returns and its locals are gone
Dispatch ==
    /\ pc = "dispatch"
    /\ IF c = CTRL_Q
       THEN /\ trace' = trace \o <<"clear", "home", "exit0">>
            /\ Exit(0)
            /\ UNCHANGED <<cx, cy>>
       ELSE /\ cx' = KeyCursor(c)[1]
            /\ cy' = KeyCursor(c)[2]
            /\ pc' = "refresh"
            /\ UNCHANGED <<trace, exit_status>>
    /\ c' = NoKey
    /\ rd' = NoRead
    /\ nread' = 0
    /\ UNCHANGED <<argc, row_off, col_off, screen_rows, screen_cols, num_rows, row,
                   orig_termios, atexit_fns, term_mode, seq, fp, wr>>

Init ==
    /\ pc = "raw_mode_enable"
    /\ argc \in {1, 2}
    /\ cx = 0
    /\ cy = 0
    /\ row_off = 0
    /\ col_off = 0
    /\ screen_rows = 0
    /\ screen_cols = 0
    /\ num_rows = 0
    /\ row = <<>>
    /\ orig_termios = "unset"
    /\ atexit_fns = <<>>
    /\ term_mode = "cooked"
    /\ seq = <<>>
    /\ c = NoKey
    /\ rd = NoRead
    /\ nread = 0
    /\ exit_status = NoStatus
    /\ trace = <<>>
    /\ fp = NoFile
    /\ wr = <<>>

Next ==
    \/ RawModeEnable
    \/ EditorInit
    \/ EditorOpen
    \/ EditorOpenClose
    \/ EditorRefreshScreen
    \/ \E res \in ReadResults : ReadC(res)
    \/ \E res \in ReadResults : ReadSeq0(res)
    \/ \E res \in ReadResults : ReadSeq1(res)
    \/ \E res \in ReadResults : ReadSeq2(res)
    \/ Dispatch
    \/ ExitHandlers
    \/ UndefinedExit

Spec == Init /\ [][Next]_vars

\* the program at a terminal that sends arrow keys only: every key that
\* reaches the switch of editor_process_keypress is one of the four arrows
DispatchArrow ==
    /\ c \in ArrowKeys
    /\ Dispatch

NextArrows ==
    \/ RawModeEnable
    \/ EditorInit
    \/ EditorOpen
    \/ EditorOpenClose
    \/ EditorRefreshScreen
    \/ \E res \in ReadResults : ReadC(res)
    \/ \E res \in ReadResults : ReadSeq0(res)
    \/ \E res \in ReadResults : ReadSeq1(res)
    \/ \E res \in ReadResults : ReadSeq2(res)
    \/ DispatchArrow
    \/ ExitHandlers
    \/ UndefinedExit

SpecArrows == Init /\ [][NextArrows]_vars

\* the program started without a file name at a terminal of one of the
\* WelcomeSizes: main does not call editor_open, the buffer stays empty
InitWelcome ==
    /\ Init
    /\ argc = 1

NextWelcome ==
    \/ RawModeEnable
    \/ EditorInitWelcome
    \/ EditorRefreshScreen
    \/ \E res \in ReadResults : ReadC(res)
    \/ \E res \in ReadResults : ReadSeq0(res)
    \/ \E res \in ReadResults : ReadSeq1(res)
    \/ \E res \in ReadResults : ReadSeq2(res)
    \/ Dispatch
    \/ ExitHandlers
    \/ UndefinedExit

SpecWelcome == InitWelcome /\ [][NextWelcome]_vars

(* ------------------------------ properties ----------------------------- *)

\* positions of the control loop after a render cycle and before the next
\* key is dispatched
AfterRender == {"read_c", "read_seq0", "read_seq1", "read_seq2", "dispatch"}

\* positions from the first call of exit on
ExitPcs == {"exit", "undefined", "terminated", "hung"}

InTrace(e) == \E i \in DOMAIN trace : trace[i] = e

\* index of the first occurrence of e in the trace, 0 when there is none
Pos(e) ==
    IF InTrace(e)
    THEN CHOOSE i \in DOMAIN trace : trace[i] = e /\ \A j \in 1 .. (i - 1) : trace[j] # e
    ELSE 0

RestoreAttempted == InTrace("restore") \/ InTrace("restore_failed")

\* C1 (as claimed): when only arrow keys are dispatched from the initial
\* state, cursor.col is at least 0 and, whenever cursor.row < num_rows, at
\* most the length of the row the cursor is on.
C1_ColWithinRow ==
    cx >= 0 /\ (cy < num_rows => cx <= Len(row[cy + 1]))

\* C2: in every reachable state cursor.row is in [0, num_rows]; ArrowUp at
\* row 0 and ArrowDown at row num_rows leave cursor.row unchanged.
C2_RowWithinBuffer ==
    /\ [](cy >= 0 /\ cy <= num_rows)
    /\ [][(pc = "dispatch" /\ c = ARROW_UP /\ cy = 0 => cy' = 0)
          /\ (pc = "dispatch" /\ c = ARROW_DOWN /\ cy = num_rows => cy' = num_rows)]_vars

\* C2 witness: the cursor has been moved down to the past-end row num_rows
\* of a buffer of at least two rows, and ArrowDown is dispatched there.
C2_Witness ==
    pc = "dispatch" /\ c = ARROW_DOWN /\ cy = num_rows /\ num_rows >= 2

\* the scroll window contains the cursor on both axes
CursorInWindow ==
    /\ row_off <= cy
    /\ cy < row_off + screen_rows
    /\ col_off <= cx
    /\ cx < col_off + screen_cols

\* C3 (as claimed): after every render cycle the cursor is inside the scroll
\* window, for every viewport.
C3_ScrollInvariantAnyViewport ==
    pc \in AfterRender => CursorInWindow

\* C3 (amended): after every render cycle with a viewport of at least one
\* row and one column, the cursor is inside the scroll window.
C3_ScrollInvariant ==
    (pc \in AfterRender /\ screen_rows >= 1 /\ screen_cols >= 1) => CursorInWindow

\* C3 witness: a render cycle has scrolled down and right.
C3_Witness ==
    pc = "read_c" /\ screen_rows >= 1 /\ row_off > 0 /\ col_off > 0

\* C4: no terminated state has the terminal mode captured and its
\* restoration never attempted.
C4_RestoreOnEveryExit ==
    (pc = "terminated" /\ orig_termios = "saved") => RestoreAttempted

\* C4 witness: the process has terminated on the fatal-error path of a key
\* read, after the restoration.
C4_Witness ==
    /\ pc = "terminated"
    /\ orig_termios = "saved"
    /\ rd.kind = "error"
    /\ InTrace("perror")
    /\ InTrace("restore")

C6_QuitExitsZero ==
    (pc = "terminated" /\ InTrace("exit0")) =>
        /\ trace = <<"clear", "home", "exit0", "restore">>
        /\ term_mode = "cooked"
        /\ exit_status = 0

\* the bytes the current editor_read_key call has consumed
Consumed == IF pc = "read_c" THEN <<>> ELSE <<ESC>> \o seq

\* the decoding table of the key decoder, keyed on the bytes of one call
KeyTable(s) ==
    CASE s[1] # ESC -> s[1]
      [] Len(s) = 3 /\ s[2] = CH_LBRACKET /\ s[3] = CH_A -> ARROW_UP
      [] Len(s) = 3 /\ s[2] = CH_LBRACKET /\ s[3] = CH_B -> ARROW_DOWN
      [] Len(s) = 3 /\ s[2] = CH_LBRACKET /\ s[3] = CH_C -> ARROW_RIGHT
      [] Len(s) = 3 /\ s[2] = CH_LBRACKET /\ s[3] = CH_D -> ARROW_LEFT
      [] Len(s) = 3 /\ s[2] = CH_LBRACKET /\ s[3] = CH_H -> HOME_KEY
      [] Len(s) = 3 /\ s[2] = CH_LBRACKET /\ s[3] = CH_F -> END_KEY
      [] Len(s) = 4 /\ s[2] = CH_LBRACKET /\ s[4] = CH_TILDE /\ s[3] \in {CH_1, CH_7} -> HOME_KEY
      [] Len(s) = 4 /\ s[2] = CH_LBRACKET /\ s[4] = CH_TILDE /\ s[3] \in {CH_2, CH_8} -> END_KEY
      [] Len(s) = 4 /\ s[2] = CH_LBRACKET /\ s[4] = CH_TILDE /\ s[3] = CH_3 -> DEL_KEY
      [] Len(s) = 4 /\ s[2] = CH_LBRACKET /\ s[4] = CH_TILDE /\ s[3] = CH_5 -> PAGE_UP
      [] Len(s) = 4 /\ s[2] = CH_LBRACKET /\ s[4] = CH_TILDE /\ s[3] = CH_6 -> PAGE_DOWN
      [] Len(s) = 3 /\ s[2] = CH_0 /\ s[3] = CH_H -> HOME_KEY
      [] Len(s) = 3 /\ s[2] = CH_0 /\ s[3] = CH_F -> END_KEY
      [] OTHER -> ESC

\* C7: when a read delivers a byte and editor_read_key returns, the key it
\* returns is the one the decoding table gives for the bytes of the call.
C7_DecoderTable ==
    [][(pc \in AfterRender /\ pc' = "dispatch" /\ rd'.kind = "byte") =>
         c' = KeyTable(Append(Consumed, rd'.ch))]_vars

\* C7 witness: the four bytes ESC [ 3 ~ have been decoded as Delete.
C7_Witness ==
    pc = "dispatch" /\ rd.kind = "byte" /\ nread = 4 /\ c = DEL_KEY

\* C8: a call in which a read after ESC timed out returns the bare escape,
\* and no byte of seq[] outlives the call.
C8_TimeoutGivesEscape ==
    /\ (pc = "dispatch" /\ rd.kind \in {"timeout", "eagain"}) => c = ESC
    /\ pc \in {"dispatch", "refresh", "read_c", "read_seq0"} => seq = <<>>

\* C8 witness: ESC [ and a digit were consumed, the read of the third
\* byte timed out, and the call has returned.
C8_Witness ==
    pc = "dispatch" /\ rd.kind = "timeout" /\ nread = 3 /\ c = ESC

\* C9 (as claimed): after a failed read the process is on the termination
\* path, with no key event returned; after a timeout it is not.
C9_ReadFailureFatal ==
    /\ rd.kind = "error" => (pc \in ExitPcs /\ InTrace("perror"))
    /\ rd.kind \in {"timeout", "eagain"} => pc \notin ExitPcs

\* C10 (as claimed): Home sets cursor.col to 0; End sets it to the length
\* of the current row, or to screen_cols - 1 on the past-end row; both leave
\* cursor.row unchanged.
C10_HomeEnd ==
    [][(pc = "dispatch" /\ c \in {HOME_KEY, END_KEY}) =>
         /\ cy' = cy
         /\ c = HOME_KEY => cx' = 0
         /\ c = END_KEY =>
              cx' = IF cy < num_rows THEN Len(row[cy + 1]) ELSE screen_cols - 1]_vars

Min(a, b) == IF a < b THEN a ELSE b
Max(a, b) == IF a > b THEN a ELSE b

\* ---- the loader ----

\* the positions of the newlines of file f, and the k-th of them
Newlines(f) == {i \in 1 .. Len(f) : f[i] = LF}
NthNewline(f, k) ==
    CHOOSE i \in Newlines(f) : Cardinality({j \in Newlines(f) : j <= i}) = k

\* the number of lines of f: one for each newline, and one more for bytes
\* after the last newline
NumLines(f) ==
    Cardinality(Newlines(f))
    + (IF Len(f) > 0 /\ f[Len(f)] # LF THEN 1 ELSE 0)

\* the k-th line of f, from behind the previous newline up to and including
\* its own newline (up to the end of f for a last line without one)
FileLine(f, k) ==
    LET from == IF k = 1 THEN 1 ELSE NthNewline(f, k - 1) + 1
        to   == IF k <= Cardinality(Newlines(f)) THEN NthNewline(f, k) ELSE Len(f)
    IN  SubSeq(f, from, to)

\* r is line l without its whole trailing run of \r and \n
IsStripped(r, l) ==
    /\ Len(r) <= Len(l)
    /\ r = SubSeq(l, 1, Len(r))
    /\ r = <<>> \/ r[Len(r)] \notin {CR, LF}
    /\ \A i \in (Len(r) + 1) .. Len(l) : l[i] \in {CR, LF}

\* C11: when the getline loop of editor_open has run on a file of N lines,
\* the buffer holds exactly N rows in file order, row k being line k
\* without its whole trailing run of \r and \n and otherwise byte for byte;
\* an empty file gives no row, and the load has not failed
C11_LoadedRows ==
    pc = "editor_open_close" =>
        /\ num_rows = NumLines(fp)
        /\ Len(row) = NumLines(fp)
        /\ \A k \in 1 .. NumLines(fp) : IsStripped(row[k], FileLine(fp, k))
        /\ exit_status = NoStatus

\* a two-line file is loaded whose first line is a bare \r\n and whose last
\* line has no newline
C11_Witness ==
    /\ pc = "editor_open_close"
    /\ fp = <<CR, LF, 97>>
    /\ row = << <<>>, <<97>> >>

\* the empty file is loaded
C11_WitnessEmpty ==
    /\ pc = "editor_open_close"
    /\ fp = <<>>
    /\ num_rows = 0

\* ---- the renderer ----

\* C12: in every state a render cycle has just left, a second render cycle with
\* no key event in between writes the very bytes the first one wrote and
\* leaves both scroll offsets as the first one left them
C12_RenderIdempotent ==
    pc = "read_c" =>
        /\ editor_scroll = <<row_off, col_off>>
        /\ <<Frame(editor_scroll[1], editor_scroll[2])>> = wr

\* a render cycle has scrolled on both axes and drawn a line of the file
C12_Witness ==
    /\ pc = "read_c"
    /\ row_off >= 1
    /\ col_off >= 1
    /\ screen_rows >= 1
    /\ row_off < num_rows

\* reading a written frame back: s without its first n bytes, and whether s
\* starts with the bytes p
Drop(s, n) == SubSeq(s, n + 1, Len(s))
StartsWith(s, p) == Len(s) >= Len(p) /\ SubSeq(s, 1, Len(p)) = p

\* the position of the first ESC of s, 0 when s has none
FirstEsc(s) ==
    IF \E i \in 1 .. Len(s) : s[i] = ESC
    THEN CHOOSE i \in 1 .. Len(s) : s[i] = ESC /\ \A j \in 1 .. (i - 1) : s[j] # ESC
    ELSE 0

\* the screen lines at the head of s, each ended by ESC [ K and the lines
\* separated by \r\n: << their contents, the rest of s >>
RECURSIVE ParseLines(_)
ParseLines(s) ==
    LET i == FirstEsc(s)
    IN  IF i = 0 \/ ~StartsWith(Drop(s, i - 1), EraseLine)
        THEN << <<>>, s >>
        ELSE LET u == Drop(s, i + 2)
                 r == ParseLines(IF StartsWith(u, CRLF) THEN Drop(u, 2) ELSE u)
             IN  << <<SubSeq(s, 1, i - 1)>> \o r[1], r[2] >>

\* the value of the decimal digits ds
RECURSIVE ParseDec(_)
ParseDec(ds) ==
    IF ds = <<>>
    THEN 0
    ELSE 10 * ParseDec(SubSeq(ds, 1, Len(ds) - 1)) + (ds[Len(ds)] - CH_0)

\* the contents of the screen lines of the frame last written
FrameLines == ParseLines(Drop(wr[1], Len(HideCursor) + Len(CursorHome)))[1]

\* what follows the screen lines in the frame last written
FrameTail == ParseLines(Drop(wr[1], Len(HideCursor) + Len(CursorHome)))[2]

\* << row, column >> of the cursor position sequence ESC [ row ; column H
\* that follows the screen lines of the frame last written
FrameCursor ==
    LET t    == FrameTail
        semi == CHOOSE i \in 1 .. Len(t) : t[i] = CH_SEMICOLON
        h    == CHOOSE i \in 1 .. Len(t) : t[i] = CH_H
    IN  <<ParseDec(SubSeq(t, 3, semi - 1)), ParseDec(SubSeq(t, semi + 1, h - 1))>>

\* the welcome message cut to the width of the screen
WelcomeText ==
    SubSeq(Welcome, 1, IF Len(Welcome) < screen_cols THEN Len(Welcome) ELSE screen_cols)

\* line l is the cut welcome message behind (screen_cols - its length) / 2
\* bytes of padding, the first of them a tilde
IsWelcomeLine(l) ==
    LET pad == (screen_cols - Len(WelcomeText)) \div 2
    IN  /\ Len(l) = pad + Len(WelcomeText)
        /\ Drop(l, pad) = WelcomeText
        /\ pad > 0 => l[1] = CH_TILDE
        /\ \A i \in 2 .. pad : l[i] = CH_SPACE

\* the screen lines of a frame drawn from an empty buffer: screen_rows
\* lines, the welcome line at index screen_rows / 3 and a single tilde on
\* every other; at 24 x 80 the welcome line is line 8, its padding 26 bytes
EmptyBufferLines ==
    /\ Len(FrameLines) = screen_rows
    /\ \A y \in 0 .. (screen_rows - 1) :
          IF y = screen_rows \div 3
          THEN IsWelcomeLine(FrameLines[y + 1])
          ELSE FrameLines[y + 1] = <<CH_TILDE>>
    /\ (screen_rows = 24 /\ screen_cols = 80) =>
          /\ Drop(FrameLines[9], 26) = Welcome
          /\ Cardinality({y \in 1 .. 24 : FrameLines[y] = <<CH_TILDE>>}) = 23

\* C13 as stated: with an empty buffer and a viewport of at least 1 x 1 the
\* frame has the lines of EmptyBufferLines and positions the cursor at (1,1)
C13_WelcomeFrameCursorHome ==
    (pc = "read_c" /\ num_rows = 0 /\ screen_rows >= 1 /\ screen_cols >= 1) =>
        /\ EmptyBufferLines
        /\ FrameCursor = <<1, 1>>

\* C13: with an empty buffer and a viewport of at least 1 x 1 the frame has
\* the lines of EmptyBufferLines and positions the cursor at row 1, column
\* cx + 1, which is (1,1) as long as cx is 0
C13_WelcomeFrame ==
    (pc = "read_c" /\ num_rows = 0 /\ screen_rows >= 1 /\ screen_cols >= 1) =>
        /\ EmptyBufferLines
        /\ FrameCursor = <<1, cx + 1>>

\* the 24 x 80 frame of the empty buffer is written, cursor at (1,1)
C13_Witness ==
    /\ pc = "read_c"
    /\ num_rows = 0
    /\ screen_rows = 24
    /\ screen_cols = 80
    /\ FrameCursor = <<1, 1>>
    /\ Len(FrameLines[9]) = 54

\* the lines ls written one after the other, each followed by ESC [ K and
\* each but the last by \r\n as well
RECURSIVE JoinLines(_)
JoinLines(ls) ==
    IF ls = <<>>
    THEN <<>>
    ELSE Head(ls) \o EraseLine
         \o (IF Len(ls) > 1 THEN CRLF ELSE <<>>)
         \o JoinLines(Tail(ls))

\* C15: a render cycle issues exactly one write, and the frame written is,
\* in this order, ESC [ ? 25 l, ESC [ H, one line for each y of
\* 0 .. screen_rows - 1 made of the row's content, ESC [ K and, except
\* after the last line, \r\n, then ESC [ cy - row_off + 1 ; cx - col_off + 1 H,
\* then ESC [ ? 25 h
C15_FrameLayout ==
    pc = "read_c" =>
        /\ Len(wr) = 1
        /\ Len(FrameLines) = screen_rows
        /\ wr[1] = HideCursor
                   \o CursorHome
                   \o JoinLines(FrameLines)
                   \o <<ESC, CH_LBRACKET>> \o Dec(cy - row_off + 1)
                   \o <<CH_SEMICOLON>> \o Dec(cx - col_off + 1) \o <<CH_H>>
                   \o ShowCursor

\* a frame of two lines is written from a buffer scrolled on both axes
C15_Witness ==
    /\ pc = "read_c"
    /\ screen_rows = 2
    /\ row_off = 1
    /\ col_off = 1
    /\ Len(FrameLines) = 2

\* the bytes of row r that a window of screen_cols columns at column
\* offset col_off shows
RowSlice(r) ==
    [i \in 1 .. Min(Max(0, Len(r) - col_off), screen_cols) |-> r[col_off + i]]

\* the screen lines that show a row of the buffer
TextLines == {y \in 0 .. (screen_rows - 1) : y + row_off < num_rows}

\* C16: every screen line y with y + row_off < num_rows shows the bytes of
\* that row from col_off on, min(max(0, length - col_off), screen_cols) of
\* them, all of them bytes of the row; nothing when col_off exceeds the
\* row's length
C16_RowSlice ==
    pc = "read_c" =>
        /\ Len(FrameLines) = screen_rows
        /\ \A y \in TextLines :
              LET r == row[y + row_off + 1]
              IN  /\ FrameLines[y + 1] = RowSlice(r)
                  /\ col_off + Len(FrameLines[y + 1]) <= Max(Len(r), col_off)
                  /\ col_off > Len(r) => FrameLines[y + 1] = <<>>

\* a line shows a row from a column offset inside the row
C16_Witness ==
    /\ pc = "read_c"
    /\ col_off >= 1
    /\ \E y \in TextLines :
          /\ Len(row[y + row_off + 1]) > col_off
          /\ FrameLines[y + 1] # <<>>

\* a line shows a row that ends before the column offset
C16_WitnessPastEnd ==
    /\ pc = "read_c"
    /\ \E y \in TextLines :
          /\ Len(row[y + row_off + 1]) < col_off
          /\ FrameLines[y + 1] = <<>>

\* what C17 says of a step of editor_scroll: with the cursor inside the
\* window of the previous offsets both offsets stay; an offset that changes
\* puts the cursor on the edge it crossed, the first line (column) when the
\* cursor was before the window, the last when it was behind it
ScrollIsMinimal ==
    /\ (/\ row_off <= cy /\ cy < row_off + screen_rows
        /\ col_off <= cx /\ cx < col_off + screen_cols)
       => (row_off' = row_off /\ col_off' = col_off)
    /\ row_off' # row_off =>
          \/ cy < row_off /\ row_off' = cy
          \/ cy >= row_off + screen_rows /\ row_off' = cy - screen_rows + 1
    /\ col_off' # col_off =>
          \/ cx < col_off /\ col_off' = cx
          \/ cx >= col_off + screen_cols /\ col_off' = cx - screen_cols + 1

\* C17 as stated: every scroll recomputation is minimal, whatever the
\* viewport
C17_ScrollMinimalAnyViewport ==
    [][pc = "refresh" => ScrollIsMinimal]_vars

\* C17: with a viewport of at least one row and one column every scroll
\* recomputation is minimal
C17_ScrollMinimal ==
    [][(pc = "refresh" /\ screen_rows >= 1 /\ screen_cols >= 1)
       => ScrollIsMinimal]_vars

\* a window of two lines has scrolled down to keep the cursor on its last
\* line
C17_Witness ==
    /\ pc = "read_c"
    /\ screen_rows = 2
    /\ row_off >= 1
    /\ row_off = cy - screen_rows + 1

\* C20: with a viewport of at least 1 x 1 no subtraction of editor_scroll
\* or of the cursor placement goes below zero (cy - screen_rows + 1 and
\* cx - screen_cols + 1 where editor_scroll computes them, cy - row_off and
\* cx - col_off after it), and the position written to the terminal has
\* 1 <= row <= screen_rows and 1 <= column <= screen_cols
C20_NoWrapCursorOnScreen ==
    (screen_rows >= 1 /\ screen_cols >= 1) =>
        /\ pc = "refresh" =>
              LET r1 == IF cy < row_off THEN cy ELSE row_off
                  c1 == IF cx < col_off THEN cx ELSE col_off
              IN  /\ cy >= r1 + screen_rows => cy - screen_rows >= 0
                  /\ cx >= c1 + screen_cols => cx - screen_cols >= 0
                  /\ cy - editor_scroll[1] >= 0
                  /\ cx - editor_scroll[2] >= 0
        /\ pc = "read_c" =>
              /\ cy - row_off >= 0
              /\ cx - col_off >= 0
              /\ FrameCursor[1] \in 1 .. screen_rows
              /\ FrameCursor[2] \in 1 .. screen_cols

\* a frame is written that puts the cursor on the last line and column of
\* a window scrolled on both axes
C20_Witness ==
    /\ pc = "read_c"
    /\ row_off >= 1
    /\ col_off >= 1
    /\ screen_rows = 2
    /\ screen_cols = 2
    /\ FrameCursor = <<2, 2>>

\* ---- the keys ----

\* n presses of key k
Presses(k, n) == [i \in 1 .. n |-> k]

\* C14: from the state the program starts its first render cycle in (cursor
\* at 0,0, the buffer loaded), ArrowDown n times and then ArrowRight m times
\* leave the cursor at row r = min(n, num_rows) and column
\* min(m, length of row r), column 0 when r = num_rows
C14_DownThenRight ==
    (pc = "refresh" /\ wr = <<>>) =>
        \A n, m \in 0 .. MaxPresses :
            LET r == Min(n, num_rows)
                p == PressKeys(Presses(ARROW_DOWN, n) \o Presses(ARROW_RIGHT, m),
                               <<cx, cy>>)
            IN  /\ p[2] = r
                /\ p[1] = IF r < num_rows THEN Min(m, Len(row[r + 1])) ELSE 0

\* the first render cycle starts on a buffer of two rows, the second not
\* empty: ArrowDown, ArrowRight, ArrowRight end on row 1 at its end
C14_Witness ==
    /\ pc = "refresh"
    /\ wr = <<>>
    /\ num_rows = 2
    /\ Len(row[2]) = 1
    /\ PressKeys(<<ARROW_DOWN, ARROW_RIGHT, ARROW_RIGHT>>, <<cx, cy>>) = <<1, 1>>

\* C18: PAGE_UP (PAGE_DOWN) does what ARROW_UP (ARROW_DOWN) dispatched
\* screen_rows times does: cy becomes max(0, cy - screen_rows)
\* (min(num_rows, cy + screen_rows)) and cx stays
C18_PageIsRepeatedArrow ==
    [][/\ (pc = "dispatch" /\ c = PAGE_UP) =>
             /\ <<cx', cy'>> = PressKeys(Presses(ARROW_UP, screen_rows), <<cx, cy>>)
             /\ cy' = Max(0, cy - screen_rows)
             /\ cx' = cx
       /\ (pc = "dispatch" /\ c = PAGE_DOWN) =>
             /\ <<cx', cy'>> = PressKeys(Presses(ARROW_DOWN, screen_rows), <<cx, cy>>)
             /\ cy' = Min(num_rows, cy + screen_rows)
             /\ cx' = cx]_vars

\* PAGE_DOWN is about to be dispatched with more than a page of rows below
\* the cursor and the cursor not in column 0
C18_Witness ==
    /\ pc = "dispatch"
    /\ c = PAGE_DOWN
    /\ screen_rows >= 1
    /\ cy + screen_rows < num_rows
    /\ cx > 0

\* PAGE_UP is about to be dispatched with less than a page of rows above
\* the cursor
C18_WitnessUp ==
    /\ pc = "dispatch"
    /\ c = PAGE_UP
    /\ cy >= 1
    /\ cy < screen_rows

\* the keys editor_process_keypress has a case for
HandledKeys ==
    {CTRL_Q, HOME_KEY, END_KEY, PAGE_UP, PAGE_DOWN} \cup ArrowKeys

\* C19: dispatching a key other than quit, Home, End, PageUp, PageDown and
\* the arrows leaves cursor, scroll offsets and viewport size as they are,
\* and no step of reading or dispatching a key changes the rows
C19_OtherKeysInert ==
    [][/\ (pc = "dispatch" /\ c \notin HandledKeys) =>
             UNCHANGED <<cx, cy, row_off, col_off, screen_rows, screen_cols>>
       /\ pc \in AfterRender => UNCHANGED <<num_rows, row>>]_vars

\* Delete is about to be dispatched with the cursor on a row, before its end
C19_Witness ==
    /\ pc = "dispatch"
    /\ c = DEL_KEY
    /\ cy < num_rows
    /\ cx < Len(row[cy + 1])


====
